---- MODULE Spec2Model ----
(***************************************************************************)
(* Grid pathfinding (findPath, map-2/ai.js) and step-by-step movement     *)
(* execution (moveRobot / setupRobotMoverButton, game.js) of the          *)
(* grid-navigation workshop application.                                   *)
(*                                                                         *)
(* The state machines of this module:                                      *)
(*   SpecFind : the breadth-first search of findPath(config), one action   *)
(*              per iteration of its while loop;                           *)
(*   SpecRun  : the click handler of the trigger button and the tasks of   *)
(*              the browser event loop that drive a run of commands;       *)
(*   SpecLegacy : the same for the earlier movePlayer of game.js, which    *)
(*              does not check its target cell.                            *)
(*   FairRun  : SpecRun with the timers and animation frames that are  *)
(*              due being run;                                             *)
(*   SpecFetch : SpecRun with fetchRoutePathWithOpenAI as the pathFetcher; *)
(*   SpecMap2 : findPath and a run of its path on the map of map-2;        *)
(*   SpecStart : startGame of the deterministic mode (part_006);           *)
(*   SpecComponents : a call of findPath or a run of the click handler;    *)
(*   SpecLayout : findPath(start, end, mapLayout) of map-1/map.js;         *)
(*   SpecPlanners, FairPlanners : either findPath, run to its end;         *)
(*   SpecLegacyFetch : the earlier handler with the fetcher of ai-fetch.js *)
(*              that extracts runs of arrows;                              *)
(*   SpecService : startGame and the start button of ai-service.js;        *)
(*   SpecSetup, FairSetup : setupGame on any layout, then the click        *)
(*              handler.                                                   *)
(***************************************************************************)
EXTENDS Integers, Sequences, FiniteSets, TLC

VARIABLES
    \* ---- findPath(config) ----
    config,     \* { width, height, start, goal, traps }
    queue,      \* const queue = []  : sequence of { x, y, path }
    visited,    \* const visited = new Set(...)
    result,     \* what findPath returned, once it has returned
    dequeues,   \* number of queue.shift() calls so far
    \* ---- the game (game.js) ----
    variant,        \* which version of the mover runs: "moveRobot" (game.js),
                    \* "movePlayer" (its predecessor), "legacy",
                    \* "startGame" or "service"
    mapConfig,      \* the layout: width, height and the type of every cell
    context,        \* gameContext: position, map size, object/trap positions,
                    \* isGameFinished
    robot,          \* robot.position (x, z), in units of 1 / LerpSteps of a cell
    disabled,       \* element.disabled of the trigger button
    hasRunOnce,     \* let hasRunOnce of setupRobotMoverButton
    pc,             \* what the click handler is waiting for ("setup",
                    \* "failed": setupGame has not run, has failed)
    moveSequence,   \* const moveSequence = moves[0]
    idx,            \* currentIndex of the chained callback in progress (1-based)
    shouldContinue, \* let shouldContinue
    intervalOn,     \* gameFinishCheckInterval is set and not cleared
    anim,           \* locals of the moveRobot call that is animating (legacy:
                    \* the registered animate callbacks)
    outcomes,       \* per command of this run: where moveRobot returned
    alerts,         \* the messages shown with alert(), oldest first
    reply,          \* what the OpenAI API answered to the last request
    fetched,        \* what the last call of pathFetcher() returned or threw
    runs            \* the calls of startGame (ai-service.js) so far

findVars == << config, queue, visited, result, dequeues >>

gameVars == << variant, mapConfig, context, robot, disabled, hasRunOnce, pc,
               moveSequence, idx, shouldContinue, intervalOn, anim, outcomes >>

vars == << config, queue, visited, result, dequeues,
           variant, mapConfig, context, robot, disabled, hasRunOnce, pc,
           moveSequence, idx, shouldContinue, intervalOn, anim, outcomes,
           alerts, reply, fetched, runs >>

-----------------------------------------------------------------------------
(* Bounds of the model *)

MaxWidth == 3
MaxHeight == 2
MaxTraps == 2
\* Bounds of the game model: area of the layout, objects and traps in it,
\* commands in a sequence, and frames an animation is cut into.
MaxCells == 4
MaxObjects == 1
MaxTrapCells == 1
MaxMoves == 3
LerpSteps == 2
MaxAlerts == 2
MaxReply == 3
MaxRuns == 2
MaxSetupCells == 3

-----------------------------------------------------------------------------
(* Direction tokens: movementKey of game.js, the names of dirs in ai.js *)

RIGHT == "RIGHT"
LEFT == "LEFT"
UP == "UP"
DOWN == "DOWN"

movementKey == { LEFT, RIGHT, UP, DOWN }

\* No request has been answered, no call has returned.
NoReply == [kind |-> "none"]

Pos(x, y) == [x |-> x, y |-> y]

\* A position of the 3D scene (x, z), in units of 1 / LerpSteps of a cell.
Vec(x, z) == [x |-> x, z |-> z]

-----------------------------------------------------------------------------
(* findPath(config): map-2/ai.js *)

\* A direction list that lacks Up.
dirsWithoutUp ==
    << [dx |-> 1, dz |-> 0, name |-> RIGHT],
       [dx |-> -1, dz |-> 0, name |-> LEFT],
       [dx |-> 0, dz |-> 1, name |-> DOWN] >>

\* The four directions with Up tried first.
dirsUpFirst ==
    << [dx |-> 0, dz |-> -1, name |-> UP],
       [dx |-> 1, dz |-> 0, name |-> RIGHT],
       [dx |-> -1, dz |-> 0, name |-> LEFT],
       [dx |-> 0, dz |-> 1, name |-> DOWN] >>

\* const dirs = [ Right, Left, Down, Up ]
dirs ==
    << [dx |-> 1, dz |-> 0, name |-> RIGHT],
       [dx |-> -1, dz |-> 0, name |-> LEFT],
       [dx |-> 0, dz |-> 1, name |-> DOWN],
       [dx |-> 0, dz |-> -1, name |-> UP] >>

\* A passable array in which no trap was marked.
passableIgnoringTraps(cfg, x, y) == TRUE

\* passable[x][y]: true for every cell of the width x height array, except the
\* traps that lie inside it (traps outside the array are skipped).
passable(cfg, x, y) ==
    ~ \E t \in cfg.traps :
        /\ t.x >= 0 /\ t.x < cfg.width /\ t.y >= 0 /\ t.y < cfg.height
        /\ t.x = x /\ t.y = y

\* Taking the newest entry of the queue (pop) instead of the oldest.
shiftNewest(q) == [node |-> q[Len(q)], rest |-> SubSeq(q, 1, Len(q) - 1)]

\* queue.shift(): the oldest entry, and the queue without it.
shift(q) == [node |-> Head(q), rest |-> Tail(q)]

\* The condition under which a neighbour (nx, ny) is enqueued.
CanEnqueue(cfg, seen, nx, ny) ==
    /\ nx >= 0 /\ nx < cfg.width
    /\ ny >= 0 /\ ny < cfg.height
    /\ passable(cfg, nx, ny)
    /\ Pos(nx, ny) \notin seen

\* for (const d of dirs) { ... } on the dequeued node: the queue and the
\* visited set after the directions k..4 have been examined in order.
RECURSIVE Expand(_, _, _, _, _)
Expand(cfg, node, k, q, seen) ==
    IF k > Len(dirs) THEN [queue |-> q, visited |-> seen]
    ELSE LET d == dirs[k]
             nx == node.x + d.dx
             ny == node.y + d.dz
         IN IF CanEnqueue(cfg, seen, nx, ny)
            THEN Expand(cfg, node, k + 1,
                        Append(q, [x |-> nx, y |-> ny,
                                   path |-> Append(node.path, d.name)]),
                        seen \cup {Pos(nx, ny)})
            ELSE Expand(cfg, node, k + 1, q, seen)

\* A goal test that skips the start node.
isGoalAfterFirstMove(cfg, node) ==
    node.path # << >> /\ node.x = cfg.goal.x /\ node.y = cfg.goal.y

\* if (node.x === goal.x && node.y === goal.y)
isGoal(cfg, node) == node.x = cfg.goal.x /\ node.y = cfg.goal.y

Pending == [kind |-> "pending", path |-> << >>]
NotFound == [kind |-> "null", path |-> << >>]
Found(p) == [kind |-> "path", path |-> p]

\* The whole function, as the loop computes it.
RECURSIVE Search(_, _, _)
Search(cfg, q, seen) ==
    IF q = << >> THEN NotFound
    ELSE LET s == shift(q)
             node == s.node
         IN IF isGoal(cfg, node)
            THEN Found(node.path)
            ELSE LET e == Expand(cfg, node, 1, s.rest, seen)
                 IN Search(cfg, e.queue, e.visited)

findPath(cfg) ==
    Search(cfg, << [x |-> cfg.start.x, y |-> cfg.start.y, path |-> << >>] >>,
           {Pos(cfg.start.x, cfg.start.y)})

\* The cells a trap list may name: those of the largest grid, so that in a
\* smaller grid some traps of the list lie outside it.
TrapCells == { Pos(x, y) : x \in 0..(MaxWidth - 1), y \in 0..(MaxHeight - 1) }

TrapSets == { T \in SUBSET TrapCells : Cardinality(T) <= MaxTraps }

Configs ==
    { c \in [width : 1..MaxWidth, height : 1..MaxHeight,
             start : TrapCells, goal : TrapCells, traps : TrapSets] :
        /\ c.start.x < c.width /\ c.start.y < c.height
        /\ c.goal.x < c.width /\ c.goal.y < c.height }

NoAnim == [active |-> FALSE]

\* The page of map-2 (findPath only): no game of game.js is set up.
GameNotLoaded ==
    /\ variant = "none"
    /\ mapConfig = [width |-> 0, height |-> 0, cell |-> << >>]
    /\ context = [isGameFinished |-> FALSE]
    /\ robot = Vec(0, 0)
    /\ disabled = FALSE
    /\ hasRunOnce = FALSE
    /\ pc = "none"
    /\ moveSequence = << >>
    /\ idx = 0
    /\ shouldContinue = TRUE
    /\ intervalOn = FALSE
    /\ anim = NoAnim
    /\ outcomes = << >>
    /\ alerts = << >>
    /\ reply = NoReply
    /\ fetched = NoReply
    /\ runs = << >>

\* The state when the while loop is first entered (ai.js lines 22-24).
InitFind ==
    /\ config \in Configs
    /\ queue = << [x |-> config.start.x, y |-> config.start.y, path |-> << >>] >>
    /\ visited = {Pos(config.start.x, config.start.y)}
    /\ result = Pending
    /\ dequeues = 0
    /\ GameNotLoaded

\* One iteration of while (queue.length > 0) that finds the goal at the head.
ReturnPath ==
    /\ result = Pending
    /\ queue # << >>
    /\ LET s == shift(queue)
           node == s.node
       IN /\ isGoal(config, node)
          /\ result' = Found(node.path)
          /\ queue' = s.rest
    /\ dequeues' = dequeues + 1
    /\ UNCHANGED << config, visited >>
    /\ UNCHANGED << gameVars, alerts, reply, fetched, runs >>

\* One iteration that dequeues a node other than the goal and examines its
\* four neighbours.
ExpandNode ==
    /\ result = Pending
    /\ queue # << >>
    /\ LET s == shift(queue)
           node == s.node
           e == Expand(config, node, 1, s.rest, visited)
       IN /\ ~ isGoal(config, node)
          /\ queue' = e.queue
          /\ visited' = e.visited
    /\ dequeues' = dequeues + 1
    /\ UNCHANGED << config, result >>
    /\ UNCHANGED << gameVars, alerts, reply, fetched, runs >>

\* The loop ends with an empty queue: return null.
ReturnNull ==
    /\ result = Pending
    /\ queue = << >>
    /\ result' = NotFound
    /\ UNCHANGED << config, queue, visited, dequeues >>
    /\ UNCHANGED << gameVars, alerts, reply, fetched, runs >>

NextFind == ReturnPath \/ ExpandNode \/ ReturnNull

SpecFind == InitFind /\ [][NextFind]_vars

-----------------------------------------------------------------------------
(* The game of game.js: renderMap, createRobot, moveRobot and the click      *)
(* handler of setupRobotMoverButton; and the earlier version of the same     *)
(* code (movePlayer, setupPlayerMoverButton), which differs from it in what  *)
(* happens on the goal cell.                                                 *)

\* Any character that is no movement key.
OtherChar == "x"

Tokens == movementKey \cup {OtherChar}

CellsOf(w, h) == { Pos(x, y) : x \in 0..(w - 1), y \in 0..(h - 1) }

\* mapConfig.layout with mapConfig.cell applied: the type of every cell.
LayoutOf(w, h, s, e, O, T) ==
    [width |-> w, height |-> h,
     cell |-> [c \in CellsOf(w, h) |->
                 IF c = s THEN "start"
                 ELSE IF c = e THEN "end"
                 ELSE IF c \in O THEN "object"
                 ELSE IF c \in T THEN "trap"
                 ELSE "normal"]]

Shapes == { sh \in (1..MaxCells) \X (1..MaxCells) : sh[1] * sh[2] <= MaxCells }

\* Layouts with one start cell, one end cell and a few objects and traps.
Layouts ==
    UNION { { LayoutOf(sh[1], sh[2], q.s, q.e, q.O, q.T) :
                q \in { r \in [s : CellsOf(sh[1], sh[2]), e : CellsOf(sh[1], sh[2]),
                               O : SUBSET CellsOf(sh[1], sh[2]),
                               T : SUBSET CellsOf(sh[1], sh[2])] :
                          /\ r.s # r.e
                          /\ r.O \cap r.T = {}
                          /\ {r.s, r.e} \cap (r.O \cup r.T) = {}
                          /\ Cardinality(r.O) <= MaxObjects
                          /\ Cardinality(r.T) <= MaxTrapCells } }
            : sh \in Shapes }

\* The order in which for (j ...) for (i ...) meets the cells.
Rank(m, c) == c.y * m.width + c.x

CellsOfType(m, type) == { c \in DOMAIN m.cell : m.cell[c] = type }

FirstOf(m, S) == CHOOSE c \in S : \A d \in S : Rank(m, c) <= Rank(m, d)

LastOf(m, S) == CHOOSE c \in S : \A d \in S : Rank(m, d) <= Rank(m, c)

\* renderMap: the map context.  position.start and position.end are
\* overwritten by every start / end cell met, so the last one stays.
renderMap(m) ==
    [position |-> [start |-> LastOf(m, CellsOfType(m, "start")),
                   end |-> LastOf(m, CellsOfType(m, "end"))],
     mapDisplayWidth |-> m.width,
     mapDisplayHeight |-> m.height,
     objectPositions |-> CellsOfType(m, "object"),
     trapPositions |-> CellsOfType(m, "trap"),
     isGameFinished |-> FALSE]

\* Math.round of a coordinate held in units of 1 / LerpSteps.
round(p) == (2 * p + LerpSteps) \div (2 * LerpSteps)

\* A whole-cell coordinate in units of 1 / LerpSteps.
Scaled(n) == n * LerpSteps

\* createRobot: the robot stands on position.start.
createRobot(ctx) ==
    Vec(Scaled(ctx.position.start.x), Scaled(ctx.position.start.y))

\* A direction table that gives every other token the step (0, 0).
directionConfigWithDefault ==
    [d \in Tokens |->
        CASE d = RIGHT -> [x |-> 1, z |-> 0]
          [] d = LEFT -> [x |-> -1, z |-> 0]
          [] d = UP -> [x |-> 0, z |-> -1]
          [] d = DOWN -> [x |-> 0, z |-> 1]
          [] OTHER -> [x |-> 0, z |-> 0]]

\* A direction table in which Up and Down are exchanged.
directionConfigUpsideDown ==
    [d \in movementKey |->
        CASE d = RIGHT -> [x |-> 1, z |-> 0]
          [] d = LEFT -> [x |-> -1, z |-> 0]
          [] d = UP -> [x |-> 0, z |-> 1]
          [] d = DOWN -> [x |-> 0, z |-> -1]]

\* const directionConfig = { ... } of moveRobot
directionConfig ==
    [d \in movementKey |->
        CASE d = RIGHT -> [x |-> 1, z |-> 0]
          [] d = LEFT -> [x |-> -1, z |-> 0]
          [] d = UP -> [x |-> 0, z |-> -1]
          [] d = DOWN -> [x |-> 0, z |-> 1]]

\* A bounds test that lets the target be one cell past the right and lower edge.
isOutOfBoundsLax(ctx, targetX, targetZ) ==
    \/ targetX < 0
    \/ targetX > ctx.mapDisplayWidth
    \/ targetZ < 0
    \/ targetZ > ctx.mapDisplayHeight

\* const isOutOfBounds = ...
isOutOfBounds(ctx, targetX, targetZ) ==
    \/ targetX < 0
    \/ targetX >= ctx.mapDisplayWidth
    \/ targetZ < 0
    \/ targetZ >= ctx.mapDisplayHeight

\* An object test that never finds a collision.
isObjectCollisionNever(ctx, targetX, targetZ) == FALSE

\* const isObjectCollision = context.objectPositions.some(...)
isObjectCollision(ctx, targetX, targetZ) ==
    \E pos \in ctx.objectPositions : pos.x = targetX /\ pos.y = targetZ

\* const isTrapCollision = context.trapPositions.some(...)
isTrapCollision(ctx, targetX, targetZ) ==
    \E pos \in ctx.trapPositions : pos.x = targetX /\ pos.y = targetZ

\* moveRobot up to its first await: either an early return (ret names it) or
\* the locals the animation and the checks after it use.
MoveStart(ctx, rob, direction) ==
    IF direction \notin DOMAIN directionConfig
    THEN [ret |-> "unknown-direction", anim |-> NoAnim]
    ELSE LET stepVec == directionConfig[direction]
             currentX == round(rob.x)
             currentZ == round(rob.z)
             targetX == currentX + stepVec.x
             targetZ == currentZ + stepVec.z
         IN IF isOutOfBounds(ctx, targetX, targetZ)
            THEN [ret |-> "blocked-by-bounds", anim |-> NoAnim]
            ELSE IF isObjectCollision(ctx, targetX, targetZ)
            THEN [ret |-> "blocked-by-obstacle", anim |-> NoAnim]
            ELSE [ret |-> "animate",
                  anim |-> [active |-> TRUE,
                            direction |-> direction,
                            startPos |-> rob,
                            endPos |-> Vec(Scaled(targetX), Scaled(targetZ)),
                            targetX |-> targetX,
                            targetZ |-> targetZ,
                            isTrapCollision |-> isTrapCollision(ctx, targetX, targetZ),
                            t |-> -1]]

\* An interpolation that stays at its first vector.
lerpVectorsStuck(a, b, t) == a

\* robot.position.lerpVectors(startPos, endPos, t), t in units of 1 / LerpSteps
lerpVectors(a, b, t) ==
    Vec(a.x + ((b.x - a.x) * t) \div LerpSteps,
        a.z + ((b.z - a.z) * t) \div LerpSteps)

\* The goal check of the earlier version (movePlayer): the chest is animated
\* and no flag is set.
isGoalFinishingNever(v, ctx, a) == FALSE

\* Whether the goal check after the animation sets the finished flag:
\* moveRobot sets context.isGameFinished on the recorded end position.
isGoalFinishing(v, ctx, a) ==
    /\ v = "moveRobot"
    /\ a.targetX = ctx.position.end.x
    /\ a.targetZ = ctx.position.end.y

\* The checks after the animation without the trap check.
MoveEndWithoutTrapCheck(v, ctx, a) ==
    IF a.targetX = ctx.position.end.x /\ a.targetZ = ctx.position.end.y
    THEN [isGameFinished |-> (ctx.isGameFinished \/ isGoalFinishing(v, ctx, a)),
          outcome |-> "reached-goal"]
    ELSE [isGameFinished |-> ctx.isGameFinished,
          outcome |-> IF a.isTrapCollision THEN "triggered-trap" ELSE "moved"]

\* moveRobot after the animation loop: the trap check, then the goal check.
MoveEnd(v, ctx, a) ==
    IF a.isTrapCollision
    THEN [isGameFinished |-> TRUE, outcome |-> "triggered-trap"]
    ELSE IF a.targetX = ctx.position.end.x /\ a.targetZ = ctx.position.end.y
    THEN [isGameFinished |-> (ctx.isGameFinished \/ isGoalFinishing(v, ctx, a)),
          outcome |-> "reached-goal"]
    ELSE [isGameFinished |-> ctx.isGameFinished, outcome |-> "moved"]

\* A write of the flag that also forgets the traps of the map.
setGameFinishedForgettingTraps(ctx, value) ==
    [ctx EXCEPT !.isGameFinished = value,
                !.trapPositions = IF value THEN {} ELSE @]

\* context.isGameFinished = value: the one write to the context.
setGameFinished(ctx, value) == [ctx EXCEPT !.isGameFinished = value]

Record(direction, outcome, rob) ==
    [direction |-> direction, outcome |-> outcome, position |-> rob]

\* The callbacks chained on previousMovePromise, from the k-th on, as far as
\* they run without waiting for a timer or an animation frame.  delayed says
\* that the k-th callback has had its setTimeout.
RECURSIVE Callback(_, _, _, _, _, _, _)
Callback(ctx, rob, seq, k, delayed, sc, log) ==
    IF k > Len(seq)
    THEN [pc |-> "done", idx |-> k, anim |-> NoAnim, shouldContinue |-> sc, log |-> log]
    ELSE IF ctx.isGameFinished
    THEN Callback(ctx, rob, seq, k + 1, FALSE, FALSE, log)
    ELSE IF k > 1 /\ ~delayed
    THEN [pc |-> "delay", idx |-> k, anim |-> NoAnim, shouldContinue |-> sc, log |-> log]
    ELSE LET m == MoveStart(ctx, rob, seq[k])
         IN IF m.ret = "animate"
            THEN [pc |-> "frame", idx |-> k, anim |-> m.anim,
                  shouldContinue |-> sc, log |-> log]
            ELSE Callback(ctx, rob, seq, k + 1, FALSE, sc,
                          Append(log, Record(seq[k], m.ret, rob)))

\* A handler without the element.disabled = false of its finally block.
ContinueLeavingDisabled(r) ==
    /\ pc' = IF r.pc = "done" THEN "idle" ELSE r.pc
    /\ idx' = r.idx
    /\ anim' = r.anim
    /\ shouldContinue' = r.shouldContinue
    /\ outcomes' = r.log
    /\ intervalOn' = (r.pc # "done")
    /\ disabled' = disabled
    /\ hasRunOnce' = IF r.pc = "done" THEN TRUE ELSE hasRunOnce

\* A handler that does not wait for the timer of the next callback.
ContinueWithoutTimer(r) ==
    /\ pc' = IF r.pc \in {"done", "delay"} THEN "idle" ELSE r.pc
    /\ idx' = r.idx
    /\ anim' = r.anim
    /\ shouldContinue' = r.shouldContinue
    /\ outcomes' = r.log
    /\ intervalOn' = (r.pc = "frame")
    /\ disabled' = IF r.pc \in {"done", "delay"} THEN FALSE ELSE disabled
    /\ hasRunOnce' = IF r.pc \in {"done", "delay"} THEN TRUE ELSE hasRunOnce

\* What the handler does with the state the callbacks left: wait on, or (the
\* chain is done) clear the interval and run its finally block.
Continue(r) ==
    /\ pc' = IF r.pc = "done" THEN "idle" ELSE r.pc
    /\ idx' = r.idx
    /\ anim' = r.anim
    /\ shouldContinue' = r.shouldContinue
    /\ outcomes' = r.log
    /\ intervalOn' = (r.pc # "done")
    /\ disabled' = IF r.pc = "done" THEN FALSE ELSE disabled
    /\ hasRunOnce' = IF r.pc = "done" THEN TRUE ELSE hasRunOnce

MoveSequences == UNION { [1..n -> Tokens] : n \in 0..MaxMoves }

Variants == { "moveRobot", "movePlayer" }

FindNotLoaded ==
    /\ config = [width |-> 0, height |-> 0, start |-> Pos(0, 0),
                 goal |-> Pos(0, 0), traps |-> {}]
    /\ queue = << >>
    /\ visited = {}
    /\ result = Pending
    /\ dequeues = 0
    /\ alerts = << >>
    /\ reply = NoReply
    /\ fetched = NoReply
    /\ runs = << >>

\* The state when setupGame has returned.
InitRun ==
    /\ FindNotLoaded
    /\ variant \in Variants
    /\ mapConfig \in Layouts
    /\ context = renderMap(mapConfig)
    /\ robot = createRobot(context)
    /\ disabled = FALSE
    /\ hasRunOnce = FALSE
    /\ pc = "idle"
    /\ moveSequence = << >>
    /\ idx = 0
    /\ shouldContinue = TRUE
    /\ intervalOn = FALSE
    /\ anim = NoAnim
    /\ outcomes = << >>

\* A click handler that leaves the finished flag of the last run in place.
ClickKeepingFlag ==
    /\ pc = "idle"
    /\ ~disabled
    /\ disabled' = TRUE
    /\ context' = context
    /\ LET starts == CellsOfType(mapConfig, "start")
       IN IF starts = {}
          THEN UNCHANGED << robot, pc >>
          ELSE /\ robot' = Vec(Scaled(FirstOf(mapConfig, starts).x),
                               Scaled(FirstOf(mapConfig, starts).y))
               /\ pc' = "fetching"
    /\ moveSequence' = << >>
    /\ outcomes' = << >>
    /\ idx' = 0
    /\ UNCHANGED << variant, mapConfig, hasRunOnce, shouldContinue, intervalOn, anim >>
    /\ reply' = NoReply
    /\ fetched' = NoReply
    /\ UNCHANGED << findVars, alerts, runs >>

\* The click handler up to await pathFetcher(); the new call of the handler
\* has no moves yet.
Click ==
    /\ pc = "idle"
    /\ ~disabled
    /\ disabled' = TRUE
    /\ context' = IF hasRunOnce THEN setGameFinished(context, FALSE)
                  ELSE context
    /\ LET starts == CellsOfType(mapConfig, "start")
       IN IF starts = {}
          THEN UNCHANGED << robot, pc >>
          ELSE /\ robot' = Vec(Scaled(FirstOf(mapConfig, starts).x),
                               Scaled(FirstOf(mapConfig, starts).y))
               /\ pc' = "fetching"
    /\ moveSequence' = << >>
    /\ outcomes' = << >>
    /\ idx' = 0
    /\ UNCHANGED << variant, mapConfig, hasRunOnce, shouldContinue, intervalOn, anim >>
    /\ reply' = NoReply
    /\ fetched' = NoReply
    /\ UNCHANGED << findVars, alerts, runs >>

\* The handler from the point where await pathFetcher() has given
\* moves = [seq]: the interval is set, the chain of callbacks is built and its
\* first callbacks run.
Resolved(seq) ==
    \* shouldContinue is true while the loop that chains the callbacks runs
    LET chained == IF context.isGameFinished THEN << >> ELSE seq
        r == Callback(context, robot, chained, 1, FALSE, TRUE, << >>)
    IN /\ moveSequence' = seq
       /\ Continue(r)

\* pathFetcher() resolves with moves = [seq].
FetchResolved ==
    /\ pc = "fetching"
    /\ \E seq \in MoveSequences : Resolved(seq)
    /\ UNCHANGED << variant, mapConfig, context, robot >>
    /\ UNCHANGED << findVars, alerts, reply, fetched, runs >>

\* pathFetcher() throws, or resolves with no array of moves: catch, finally.
FetchFailed ==
    /\ pc = "fetching"
    /\ pc' = "idle"
    /\ disabled' = FALSE
    /\ hasRunOnce' = TRUE
    /\ UNCHANGED << variant, mapConfig, context, robot, moveSequence, idx,
                    shouldContinue, intervalOn, anim, outcomes >>
    /\ UNCHANGED << findVars, alerts, reply, fetched, runs >>

\* The setTimeout(resolve, movingDelay) of the callback in progress fires.
TimerFires ==
    /\ pc = "delay"
    /\ Continue(Callback(context, robot, moveSequence, idx, TRUE,
                         shouldContinue, outcomes))
    /\ UNCHANGED << variant, mapConfig, context, robot, moveSequence >>
    /\ UNCHANGED << findVars, alerts, reply, fetched, runs >>

\* An animation frame of the moveRobot call in progress.  The first frame
\* gives the start time (t = 0); a later one finds any later t, and the one
\* that finds t = 1 ends the loop: the trap and goal checks run and the next
\* callbacks start.
AnimationFrame ==
    /\ pc = "frame"
    /\ \E t \in (anim.t + 1)..(IF anim.t = -1 THEN 0 ELSE LerpSteps) :
         /\ robot' = lerpVectors(anim.startPos, anim.endPos, t)
         /\ IF t < LerpSteps
            THEN /\ anim' = [anim EXCEPT !.t = t]
                 /\ UNCHANGED << context, pc, idx, shouldContinue, outcomes,
                                 intervalOn, disabled, hasRunOnce >>
            ELSE LET e == MoveEnd(variant, context, anim)
                     ctx == setGameFinished(context, e.isGameFinished)
                 IN /\ context' = ctx
                    /\ Continue(Callback(ctx, robot', moveSequence, idx + 1, FALSE,
                                         shouldContinue,
                                         Append(outcomes,
                                                Record(anim.direction, e.outcome, robot'))))
    /\ UNCHANGED << variant, mapConfig, moveSequence >>
    /\ UNCHANGED << findVars, alerts, reply, fetched, runs >>

\* The setInterval callback that watches the finished flag.
IntervalTick ==
    /\ intervalOn
    /\ IF context.isGameFinished
       THEN shouldContinue' = FALSE /\ intervalOn' = FALSE
       ELSE UNCHANGED << shouldContinue, intervalOn >>
    /\ UNCHANGED << variant, mapConfig, context, robot, disabled, hasRunOnce, pc,
                    moveSequence, idx, anim, outcomes >>
    /\ UNCHANGED << findVars, alerts, reply, fetched, runs >>

NextRun ==
    \/ Click
    \/ FetchResolved
    \/ FetchFailed
    \/ TimerFires
    \/ AnimationFrame
    \/ IntervalTick

SpecRun == InitRun /\ [][NextRun]_vars

\* The browser runs a timer that is due and an animation frame that was
\* requested.
FairRun == SpecRun /\ WF_vars(TimerFires) /\ WF_vars(AnimationFrame)

-----------------------------------------------------------------------------
(* setupGame on any layout: renderGame calls renderMap, which throws when    *)
(* the layout has no start or no end cell, and only then is the click        *)
(* handler installed, with the same mapConfig.                               *)

CellTypes == { "start", "end", "normal", "object", "trap" }

\* The layouts of up to MaxSetupCells cells, of any cell types.
AnyLayouts ==
    UNION { { [width |-> sh[1], height |-> sh[2], cell |-> f] :
                f \in [CellsOf(sh[1], sh[2]) -> CellTypes] }
            : sh \in { t \in Shapes : t[1] * t[2] <= MaxSetupCells } }

\* The state when setupGame is called.
InitSetup ==
    /\ FindNotLoaded
    /\ variant = "moveRobot"
    /\ mapConfig \in AnyLayouts
    /\ context = [isGameFinished |-> FALSE]
    /\ robot = Vec(0, 0)
    /\ disabled = FALSE
    /\ hasRunOnce = FALSE
    /\ pc = "setup"
    /\ moveSequence = << >>
    /\ idx = 0
    /\ shouldContinue = TRUE
    /\ intervalOn = FALSE
    /\ anim = NoAnim
    /\ outcomes = << >>

\* setupGame: renderMap throws without a start or an end cell and the catch
\* block logs the error; otherwise the robot is created on the recorded start
\* position and the click handler is installed.
SetupGame ==
    /\ pc = "setup"
    /\ IF CellsOfType(mapConfig, "start") = {} \/ CellsOfType(mapConfig, "end") = {}
       THEN /\ pc' = "failed"
            /\ UNCHANGED << context, robot >>
       ELSE /\ context' = renderMap(mapConfig)
            /\ robot' = createRobot(context')
            /\ pc' = "idle"
    /\ UNCHANGED << variant, mapConfig, disabled, hasRunOnce, moveSequence, idx,
                    shouldContinue, intervalOn, anim, outcomes >>
    /\ UNCHANGED << findVars, alerts, reply, fetched, runs >>

NextSetup ==
    \/ SetupGame
    \/ Click
    \/ FetchResolved
    \/ FetchFailed
    \/ TimerFires
    \/ AnimationFrame
    \/ IntervalTick

SpecSetup == InitSetup /\ [][NextSetup]_vars

\* setupGame runs to its end, timers and animation frames that are due are
\* run, and the promise of pathFetcher() settles.
FairSetup ==
    /\ SpecSetup
    /\ WF_vars(SetupGame)
    /\ WF_vars(TimerFires)
    /\ WF_vars(AnimationFrame)
    /\ WF_vars(FetchResolved \/ FetchFailed)

\* The two components side by side: a call of findPath on a configuration, or
\* the game on a layout.  findPath runs where no game has been set up.
InitComponents == InitFind \/ InitRun

FindStep == variant = "none" /\ NextFind

NextComponents ==
    \/ FindStep
    \/ Click
    \/ FetchResolved
    \/ FetchFailed
    \/ TimerFires
    \/ AnimationFrame
    \/ IntervalTick

SpecComponents == InitComponents /\ [][NextComponents]_vars

-----------------------------------------------------------------------------
(* The earlier movePlayer and setupPlayerMoverButton of game.js.  movePlayer *)
(* starts an animation and returns without waiting for it, and the handler   *)
(* waits 500 ms between two calls.  anim is the list of the                  *)
(* animate callbacks registered with requestAnimationFrame; timers and       *)
(* frames are not ordered with each other.                                   *)

\* The switch of movePlayer; the default case is the record with no step.
stepVec(direction) ==
    IF direction = RIGHT THEN [known |-> TRUE, x |-> 1, z |-> 0]
    ELSE IF direction = LEFT THEN [known |-> TRUE, x |-> -1, z |-> 0]
    ELSE IF direction = UP THEN [known |-> TRUE, x |-> 0, z |-> -1]
    ELSE IF direction = DOWN THEN [known |-> TRUE, x |-> 0, z |-> 1]
    ELSE [known |-> FALSE, x |-> 0, z |-> 0]

\* movePlayer: the callbacks registered once it has returned.
movePlayer(callbacks, mesh, direction) ==
    IF ~ stepVec(direction).known
    THEN callbacks
    ELSE Append(callbacks,
                [startPos |-> mesh,
                 endPos |-> Vec(mesh.x + Scaled(stepVec(direction).x),
                                mesh.z + Scaled(stepVec(direction).z)),
                 t |-> -1])

\* animate(currentTime) of one callback, dt after the previous frame.
animate(a, dt) ==
    [a EXCEPT !.t = IF a.t = -1 THEN 0
                    ELSE IF a.t + dt > LerpSteps THEN LerpSteps ELSE a.t + dt]

LegacyContext == [isGameFinished |-> FALSE]

\* _createPlayerLogic: the mesh stands on the first start cell, or on (0, 0).
createPlayer(m) ==
    LET starts == CellsOfType(m, "start")
    IN IF starts = {} THEN Vec(0, 0)
       ELSE Vec(Scaled(FirstOf(m, starts).x), Scaled(FirstOf(m, starts).y))

\* The state when the page of the earlier version has been set up.
InitLegacy ==
    /\ FindNotLoaded
    /\ variant = "legacy"
    /\ mapConfig \in Layouts
    /\ context = LegacyContext
    /\ robot = createPlayer(mapConfig)
    /\ disabled = FALSE
    /\ hasRunOnce = FALSE
    /\ pc = "idle"
    /\ moveSequence = << >>
    /\ idx = 0
    /\ shouldContinue = TRUE
    /\ intervalOn = FALSE
    /\ anim = << >>
    /\ outcomes = << >>

\* The click handler up to await fetchPathFunction(): the mesh is put on the
\* first start cell.  A click is taken when no animation is left running.
LegacyClick ==
    /\ pc = "idle"
    /\ ~disabled
    /\ anim = << >>
    /\ disabled' = TRUE
    /\ LET starts == CellsOfType(mapConfig, "start")
       IN robot' = IF starts = {} THEN robot
                   ELSE Vec(Scaled(FirstOf(mapConfig, starts).x),
                            Scaled(FirstOf(mapConfig, starts).y))
    /\ pc' = "fetching"
    /\ UNCHANGED << variant, mapConfig, context, hasRunOnce, moveSequence, idx,
                    shouldContinue, intervalOn, anim, outcomes >>
    /\ reply' = NoReply
    /\ fetched' = NoReply
    /\ UNCHANGED << findVars, alerts, runs >>

\* fetchPathFunction() resolves: with no moves the handler returns, otherwise
\* the loop waits for its first timer.
LegacyFetchResolved ==
    /\ pc = "fetching"
    /\ \E moves \in MoveSequences :
         /\ moveSequence' = moves
         /\ IF Len(moves) = 0
            THEN pc' = "idle" /\ disabled' = FALSE /\ idx' = 0
            ELSE pc' = "delay" /\ disabled' = disabled /\ idx' = 1
    /\ UNCHANGED << variant, mapConfig, context, robot, hasRunOnce,
                    shouldContinue, intervalOn, anim, outcomes >>
    /\ UNCHANGED << findVars, alerts, reply, fetched, runs >>

\* fetchPathFunction() throws: catch, finally.
LegacyFetchFailed ==
    /\ pc = "fetching"
    /\ pc' = "idle"
    /\ disabled' = FALSE
    /\ UNCHANGED << variant, mapConfig, context, robot, hasRunOnce, moveSequence,
                    idx, shouldContinue, intervalOn, anim, outcomes >>
    /\ UNCHANGED << findVars, alerts, reply, fetched, runs >>

\* The timer of the loop fires and movePlayer is called with moves[idx];
\* after the last move the finally block enables the button.
LegacyTimerFires ==
    /\ pc = "delay"
    /\ anim' = movePlayer(anim, robot, moveSequence[idx])
    /\ IF idx = Len(moveSequence)
       THEN pc' = "idle" /\ disabled' = FALSE /\ idx' = idx
       ELSE pc' = "delay" /\ disabled' = disabled /\ idx' = idx + 1
    /\ UNCHANGED << variant, mapConfig, context, robot, hasRunOnce, moveSequence,
                    shouldContinue, intervalOn, outcomes >>
    /\ UNCHANGED << findVars, alerts, reply, fetched, runs >>

\* An animation frame: every registered animate callback runs, in the order
\* of registration, and those with t < 1 register themselves again.
LegacyAnimationFrame ==
    /\ anim # << >>
    /\ \E dt \in 1..LerpSteps :
         LET ran == [k \in 1..Len(anim) |-> animate(anim[k], dt)]
             last == ran[Len(ran)]
         IN /\ robot' = lerpVectors(last.startPos, last.endPos, last.t)
            /\ anim' = SelectSeq(ran, LAMBDA a : a.t < LerpSteps)
    /\ UNCHANGED << variant, mapConfig, context, disabled, hasRunOnce, pc,
                    moveSequence, idx, shouldContinue, intervalOn, outcomes >>
    /\ UNCHANGED << findVars, alerts, reply, fetched, runs >>

NextLegacy ==
    \/ LegacyClick
    \/ LegacyFetchResolved
    \/ LegacyFetchFailed
    \/ LegacyTimerFires
    \/ LegacyAnimationFrame

SpecLegacy == InitLegacy /\ [][NextLegacy]_vars

-----------------------------------------------------------------------------
(* fetchRoutePathWithOpenAI, the pathFetcher of the click handler: the       *)
(* answer of the API is checked, the message content is filtered to the      *)
(* characters of movementKey and the runs of such characters are extracted.  *)
(* ai.js throws an AppError on a failure; ai-fetch.js shows an alert and     *)
(* returns null.                                                             *)

Contents == UNION { [1..n -> Tokens] : n \in 0..MaxReply }

\* What fetch() and response.json() give: response.ok, the number of
\* choices, and choices[0].message.content.
Replies ==
    { [kind |-> "reply", ok |-> FALSE, choices |-> 0, content |-> << >>],
      [kind |-> "reply", ok |-> TRUE, choices |-> 0, content |-> << >>] }
    \cup { [kind |-> "reply", ok |-> TRUE, choices |-> 1, content |-> c] :
             c \in Contents }

ApiErrorMessage == "OpenAI API error"
NoChoicesMessage == "no choices in the response"
NoMovesMessage == "no valid moves in the response"
NoRouteFromAIMessage == "no valid route returned by the AI"

\* A filter that removes nothing.
replaceNothing(str) == str

\* messageContent.replace(filterRegex, ''), filterRegex = /[^<keys>]/g
replaceFilter(str) == SelectSeq(str, LAMBDA c : c \in movementKey)

\* The matches of /[<keys>]+/g in str from position i on: the maximal runs of
\* movement keys, left to right; run is the run being read.
RECURSIVE matches(_, _, _)
matches(str, i, run) ==
    IF i > Len(str)
    THEN IF run = << >> THEN << >> ELSE << run >>
    ELSE IF str[i] \in movementKey
    THEN matches(str, i + 1, Append(run, str[i]))
    ELSE (IF run = << >> THEN << >> ELSE << run >>) \o matches(str, i + 1, << >>)

\* str.match(extractRegex): null when nothing matches.
matchExtract(str) ==
    LET m == matches(str, 1, << >>)
    IN [isNull |-> (m = << >>), list |-> m]

Throw(message) == [kind |-> "throw", message |-> message]

AlertAndNull(message) == [kind |-> "null", message |-> message]

\* A fetcher that returns whatever was extracted.
fetchRoutePathUnchecked(r) ==
    [kind |-> "moves", list |-> matchExtract(replaceFilter(r.content)).list]

\* fetchRoutePathWithOpenAI of ai.js, from the answer r of the API on.
fetchRoutePathWithOpenAI(r) ==
    IF ~ r.ok THEN Throw(ApiErrorMessage)
    ELSE IF r.choices = 0 THEN Throw(NoChoicesMessage)
    ELSE LET filteredMessageContent == replaceFilter(r.content)
             m == matchExtract(filteredMessageContent)
         IN IF m.isNull \/ Len(m.list) = 0 \/ Len(m.list[1]) = 0
            THEN Throw(NoMovesMessage)
            ELSE [kind |-> "moves", list |-> m.list]

\* fetchRoutePathWithOpenAI of ai-fetch.js.
fetchRoutePathOfAiFetch(r) ==
    IF ~ r.ok THEN AlertAndNull(ApiErrorMessage)
    ELSE IF r.choices = 0 THEN AlertAndNull(NoChoicesMessage)
    ELSE LET filteredMessageContent == replaceFilter(r.content)
             m == matchExtract(filteredMessageContent)
         IN IF m.isNull \/ Len(m.list) = 0 \/ Len(m.list[1]) = 0
            THEN AlertAndNull(NoMovesMessage)
            ELSE [kind |-> "moves", list |-> m.list]

Fetchers == { "ai.js", "ai-fetch.js" }

\* A handler out of which the error propagates: no catch, no finally.
Propagated ==
    /\ pc' = "idle"
    /\ UNCHANGED << disabled, hasRunOnce, context, robot, moveSequence, idx,
                    shouldContinue, intervalOn, anim, outcomes >>

\* The handler when its try block is left without a run: catch (if something
\* was thrown) and finally.
Finally ==
    /\ pc' = "idle"
    /\ disabled' = FALSE
    /\ hasRunOnce' = TRUE
    /\ UNCHANGED << context, robot, moveSequence, idx, shouldContinue,
                    intervalOn, anim, outcomes >>

\* The API answers and pathFetcher() settles.  A thrown AppError is logged
\* with its alert; a null makes moves[0] throw in the handler; an empty array
\* is reported by the handler; otherwise the run of moves[0] starts.
ReplyArrives ==
    /\ pc = "fetching"
    /\ \E r \in Replies, f \in Fetchers :
         LET ret == IF f = "ai.js" THEN fetchRoutePathWithOpenAI(r)
                    ELSE fetchRoutePathOfAiFetch(r)
         IN /\ reply' = r
            /\ fetched' = ret
            /\ IF ret.kind \in {"throw", "null"}
               THEN /\ Len(alerts) < MaxAlerts
                    /\ alerts' = Append(alerts, ret.message)
                    /\ Finally
               ELSE IF ret.list = << >>
               THEN /\ Len(alerts) < MaxAlerts
                    /\ alerts' = Append(alerts, NoRouteFromAIMessage)
                    /\ Finally
               ELSE /\ Resolved(ret.list[1])
                    /\ UNCHANGED << alerts, context, robot >>
    /\ UNCHANGED << variant, mapConfig >>
    /\ UNCHANGED << findVars, runs >>

InitFetch == InitRun /\ variant = "moveRobot"

NextFetch ==
    \/ Click
    \/ ReplyArrives
    \/ TimerFires
    \/ AnimationFrame
    \/ IntervalTick

SpecFetch == InitFetch /\ [][NextFetch]_vars

-----------------------------------------------------------------------------
(* The earlier fetchRoutePathWithOpenAI of ai-fetch.js, which extracts the   *)
(* runs of arrows from the unfiltered message content, as the                *)
(* fetchPathFunction of the earlier click handler, which passes every        *)
(* element of the array to movePlayer.                                       *)

\* fetchRoutePathWithOpenAI with messageContent.match(/[<arrows>]+/g), from
\* the answer r of the API on; every failure alerts and returns null.
fetchRoutePathArrowRegex(r) ==
    IF ~ r.ok THEN AlertAndNull(ApiErrorMessage)
    ELSE IF r.choices = 0 THEN AlertAndNull(NoChoicesMessage)
    ELSE LET m == matchExtract(r.content)
         IN IF m.isNull \/ Len(m.list) = 0
            THEN AlertAndNull(NoMovesMessage)
            ELSE [kind |-> "moves", list |-> m.list]

\* A string of several arrows: no case label of movePlayer equals it.
SeveralArrows == "arrows"

\* The string moves[i] as movePlayer's switch compares it: a string of one
\* character is that character.
asDirection(run) == IF Len(run) = 1 THEN run[1] ELSE SeveralArrows

\* The API answers and fetchPathFunction() returns: null ends the handler
\* (the button is enabled twice), an array starts the loop over its elements.
LegacyReplyArrives ==
    /\ pc = "fetching"
    /\ \E r \in Replies :
         LET ret == fetchRoutePathArrowRegex(r)
         IN /\ reply' = r
            /\ fetched' = ret
            /\ IF ret.kind = "null"
               THEN /\ Len(alerts) < MaxAlerts
                    /\ alerts' = Append(alerts, ret.message)
                    /\ pc' = "idle"
                    /\ disabled' = FALSE
                    /\ UNCHANGED << moveSequence, idx >>
               ELSE /\ moveSequence' = [i \in 1..Len(ret.list) |-> asDirection(ret.list[i])]
                    /\ pc' = "delay"
                    /\ idx' = 1
                    /\ UNCHANGED << alerts, disabled >>
    /\ UNCHANGED << variant, mapConfig, context, robot, hasRunOnce,
                    shouldContinue, intervalOn, anim, outcomes >>
    /\ UNCHANGED << findVars, runs >>

\* The page set up on a layout of start, end and normal cells: this runner
\* reads nothing of the layout but the start cell.
InitLegacyFetch ==
    /\ InitLegacy
    /\ CellsOfType(mapConfig, "object") = {}
    /\ CellsOfType(mapConfig, "trap") = {}

NextLegacyFetch ==
    \/ LegacyClick
    \/ LegacyReplyArrives
    \/ LegacyTimerFires
    \/ LegacyAnimationFrame

SpecLegacyFetch == InitLegacyFetch /\ [][NextLegacyFetch]_vars

-----------------------------------------------------------------------------
(* The map of map-2/map.js: findPath searches it, and the path it returns is *)
(* run by the click handler and moveRobot on the layout that has the same    *)
(* start, goal and traps.                                                    *)

map2Config ==
    [width |-> 8, height |-> 8, start |-> Pos(1, 1), goal |-> Pos(6, 6),
     traps |-> {Pos(3, 2), Pos(4, 4), Pos(2, 5), Pos(5, 1)}]

\* The layout with the start, goal and traps of a findPath configuration.
layoutOfConfig(cfg) ==
    LayoutOf(cfg.width, cfg.height, cfg.start, cfg.goal, {}, cfg.traps)

InitMap2 ==
    /\ config = map2Config
    /\ queue = << [x |-> config.start.x, y |-> config.start.y, path |-> << >>] >>
    /\ visited = {Pos(config.start.x, config.start.y)}
    /\ result = Pending
    /\ dequeues = 0
    /\ alerts = << >>
    /\ reply = NoReply
    /\ fetched = NoReply
    /\ runs = << >>
    /\ variant = "moveRobot"
    /\ mapConfig = layoutOfConfig(config)
    /\ context = renderMap(mapConfig)
    /\ robot = createRobot(context)
    /\ disabled = FALSE
    /\ hasRunOnce = FALSE
    /\ pc = "idle"
    /\ moveSequence = << >>
    /\ idx = 0
    /\ shouldContinue = TRUE
    /\ intervalOn = FALSE
    /\ anim = NoAnim
    /\ outcomes = << >>

\* pathFetcher() resolves with the path findPath has returned.
FetchFound ==
    /\ pc = "fetching"
    /\ result.kind = "path"
    /\ Resolved(result.path)
    /\ UNCHANGED << variant, mapConfig, context, robot >>
    /\ UNCHANGED << findVars, alerts, reply, fetched, runs >>

NextMap2 ==
    \/ ExpandNode
    \/ ReturnPath
    \/ Click
    \/ FetchFound
    \/ TimerFires
    \/ AnimationFrame
    \/ IntervalTick

SpecMap2 == InitMap2 /\ [][NextMap2]_vars

-----------------------------------------------------------------------------
(* The deterministic mode: startGame(mapConfig) puts the player on the start *)
(* cell, asks findPath for the moves and calls movePlayer for each of them,  *)
(* 500 ms apart.  Its movePlayer is the one without checks, which starts an  *)
(* animation and returns.                                                    *)

NoRouteMessage == "no route to the goal"

\* createMapObjects: playerMesh.position.set(start.x, 0.5, start.y)
createMapObjects(cfg) == Vec(Scaled(cfg.start.x), Scaled(cfg.start.y))

\* The state when the scene has been built and startGame not yet called.
InitStart ==
    /\ config \in Configs
    /\ queue = << >>
    /\ visited = {}
    /\ result = Pending
    /\ dequeues = 0
    /\ variant = "startGame"
    /\ mapConfig = [width |-> 0, height |-> 0, cell |-> << >>]
    /\ context = [isGameFinished |-> FALSE]
    /\ robot = createMapObjects(config)
    /\ disabled = FALSE
    /\ hasRunOnce = FALSE
    /\ pc = "loaded"
    /\ moveSequence = << >>
    /\ idx = 0
    /\ shouldContinue = TRUE
    /\ intervalOn = FALSE
    /\ anim = << >>
    /\ outcomes = << >>
    /\ alerts = << >>
    /\ reply = NoReply
    /\ fetched = NoReply
    /\ runs = << >>

\* startGame(mapConfig), with the first call of executeMove.  It is called
\* when no earlier call is still moving the player.
StartGame ==
    /\ pc \in {"loaded", "over"}
    /\ anim = << >>
    /\ Len(alerts) < MaxAlerts
    /\ LET moves == findPath(config)
           start == createMapObjects(config)
       IN /\ result' = moves
          /\ IF moves.kind = "null" \/ Len(moves.path) = 0
             THEN /\ alerts' = Append(alerts, NoRouteMessage)
                  /\ robot' = start
                  /\ pc' = "over"
                  /\ UNCHANGED << moveSequence, idx, anim >>
             ELSE /\ moveSequence' = moves.path
                  /\ robot' = start
                  /\ anim' = movePlayer(anim, start, moves.path[1])
                  /\ idx' = 1
                  /\ pc' = "timer"
                  /\ UNCHANGED alerts
    /\ UNCHANGED << config, queue, visited, dequeues, variant, mapConfig, context,
                    disabled, hasRunOnce, shouldContinue, intervalOn, outcomes,
                    reply, fetched, runs >>

\* The setTimeout(executeMove, 500) fires; idx is stepIndex.
ExecuteMove ==
    /\ pc = "timer"
    /\ IF idx < Len(moveSequence)
       THEN /\ anim' = movePlayer(anim, robot, moveSequence[idx + 1])
            /\ idx' = idx + 1
            /\ pc' = "timer"
       ELSE /\ pc' = "over"
            /\ UNCHANGED << anim, idx >>
    /\ UNCHANGED << variant, mapConfig, context, robot, disabled, hasRunOnce,
                    moveSequence, shouldContinue, intervalOn, outcomes >>
    /\ UNCHANGED << findVars, alerts, reply, fetched, runs >>

NextStart ==
    \/ StartGame
    \/ ExecuteMove
    \/ LegacyAnimationFrame

SpecStart == InitStart /\ [][NextStart]_vars

-----------------------------------------------------------------------------
(* startGame of ai-service.js behind the start button that initializeAppMap  *)
(* sets up: the click listener calls startGame(mapConfig) and does nothing   *)
(* to the button.  A call puts the player on the start cell, awaits          *)
(* fetchPathFromAI and calls movePlayer for every move, 500 ms apart; runs   *)
(* holds, per call so far, its moves, its stepIndex and what it waits for;   *)
(* MaxRuns bounds the number of clicks.                                      *)

\* fetchPathFromAI(mapConfig), the simulated answer of the AI: one move
\* towards the goal, along x first, or null when start and goal coincide.
\* (Its two longer demonstration paths are for maps of 6 x 6 and 8 x 8.)
fetchPathFromAI(m) ==
    LET start == FirstOf(m, CellsOfType(m, "start"))
        goal == FirstOf(m, CellsOfType(m, "end"))
    IN IF goal.x > start.x THEN Found(<< RIGHT >>)
       ELSE IF goal.x < start.x THEN Found(<< LEFT >>)
       ELSE IF goal.y > start.y THEN Found(<< DOWN >>)
       ELSE IF goal.y < start.y THEN Found(<< UP >>)
       ELSE NotFound

\* The state when initializeAppMap has built the scene.
InitService ==
    /\ FindNotLoaded
    /\ variant = "service"
    /\ mapConfig \in Layouts
    /\ context = LegacyContext
    /\ robot = createPlayer(mapConfig)
    /\ disabled = FALSE
    /\ hasRunOnce = FALSE
    /\ pc = "idle"
    /\ moveSequence = << >>
    /\ idx = 0
    /\ shouldContinue = TRUE
    /\ intervalOn = FALSE
    /\ anim = << >>
    /\ outcomes = << >>

\* A call that has returned and has no timer left.
returned(run) == [run EXCEPT !.wait = "done"]

\* A click on the start button: startGame up to await fetchPathFromAI().
ServiceClick ==
    /\ ~ disabled
    /\ Len(runs) < MaxRuns
    /\ robot' = createPlayer(mapConfig)
    /\ runs' = Append(runs, [wait |-> "fetch", moves |-> << >>, stepIndex |-> 0])
    /\ UNCHANGED << variant, mapConfig, context, disabled, hasRunOnce, pc,
                    moveSequence, idx, shouldContinue, intervalOn, anim, outcomes >>
    /\ UNCHANGED << findVars, alerts, reply, fetched >>

\* fetchPathFromAI() resolves for a call: without moves the call alerts and
\* returns, otherwise executeMove runs for the first time.
ServiceFetched ==
    \E k \in 1..Len(runs) :
      /\ runs[k].wait = "fetch"
      /\ LET moves == fetchPathFromAI(mapConfig)
         IN IF moves.kind = "null" \/ Len(moves.path) = 0
            THEN /\ Len(alerts) < MaxAlerts
                 /\ alerts' = Append(alerts, NoRouteMessage)
                 /\ runs' = [runs EXCEPT ![k] = returned(@)]
                 /\ UNCHANGED anim
            ELSE /\ anim' = movePlayer(anim, robot, moves.path[1])
                 /\ runs' = [runs EXCEPT ![k] = [wait |-> "timer",
                                                  moves |-> moves.path,
                                                  stepIndex |-> 1]]
                 /\ UNCHANGED alerts
      /\ UNCHANGED << variant, mapConfig, context, robot, disabled, hasRunOnce, pc,
                      moveSequence, idx, shouldContinue, intervalOn, outcomes >>
      /\ UNCHANGED << findVars, reply, fetched >>

\* The setTimeout(executeMove, 500) of a call fires.
ServiceExecuteMove ==
    \E k \in 1..Len(runs) :
      /\ runs[k].wait = "timer"
      /\ IF runs[k].stepIndex < Len(runs[k].moves)
         THEN /\ anim' = movePlayer(anim, robot, runs[k].moves[runs[k].stepIndex + 1])
              /\ runs' = [runs EXCEPT ![k].stepIndex = @ + 1]
         ELSE /\ runs' = [runs EXCEPT ![k] = returned(@)]
              /\ UNCHANGED anim
      /\ UNCHANGED << variant, mapConfig, context, robot, disabled, hasRunOnce, pc,
                      moveSequence, idx, shouldContinue, intervalOn, outcomes >>
      /\ UNCHANGED << findVars, alerts, reply, fetched >>

NextService ==
    \/ ServiceClick
    \/ ServiceFetched
    \/ ServiceExecuteMove
    \/ LegacyAnimationFrame

SpecService == InitService /\ [][NextService]_vars

-----------------------------------------------------------------------------
(* The layout-based findPath(start, end, mapLayout) of map-1/map.js: a      *)
(* breadth-first search over the cells of a layout of cell keys, whose queue *)
(* holds whole paths of coordinates.  Here config is the argument list       *)
(* (start, end, mapLayout), queue the queue of paths and visited the set of  *)
(* keys `${x}-${y}`.                                                         *)

\* The key the search takes for a wall.
Wall == "#"

\* The keys of mapConfig.cell (map-2/map.js), and the wall key.
Keys == { "s", "e", "t", "o", "n", Wall }

\* mapConfig.cell[key].type; the wall key has no definition.
cellType(key) ==
    CASE key = "s" -> "start"
      [] key = "e" -> "end"
      [] key = "t" -> "trap"
      [] key = "o" -> "object"
      [] key = "n" -> "normal"
      [] key = Wall -> "undefined"

\* mapLayout[y][x] of a rectangular layout: mapLayout[0].length is width,
\* mapLayout.length is height.
KeyLayouts ==
    UNION { { [width |-> sh[1], height |-> sh[2], key |-> f] :
                f \in [CellsOf(sh[1], sh[2]) -> Keys] } : sh \in Shapes }

\* The argument lists of a call.
LayoutCalls ==
    UNION { [start : DOMAIN m.key, end : DOMAIN m.key, mapLayout : {m}] :
              m \in KeyLayouts }

\* const neighbors = [ Up, Down, Left, Right ]
neighbors(x, y) == << Pos(x, y - 1), Pos(x, y + 1), Pos(x - 1, y), Pos(x + 1, y) >>

\* A test of the neighbour that does not look at the visited set.
canVisitAgain(mapLayout, seen, neighbor) ==
    /\ neighbor.x >= 0 /\ neighbor.x < mapLayout.width
    /\ neighbor.y >= 0 /\ neighbor.y < mapLayout.height
    /\ mapLayout.key[neighbor] # Wall

\* The if of the neighbour loop: in bounds, not a wall, not visited.
canVisit(mapLayout, seen, neighbor) ==
    /\ neighbor.x >= 0 /\ neighbor.x < mapLayout.width
    /\ neighbor.y >= 0 /\ neighbor.y < mapLayout.height
    /\ mapLayout.key[neighbor] # Wall
    /\ neighbor \notin seen

\* for (const neighbor of neighbors) { ... }: the queue and the visited set
\* after the neighbours k..4 of the last cell of path have been examined.
RECURSIVE explore(_, _, _, _, _)
explore(mapLayout, path, k, q, seen) ==
    LET last == path[Len(path)]
        nbs == neighbors(last.x, last.y)
    IN IF k > Len(nbs) THEN [queue |-> q, visited |-> seen]
       ELSE IF canVisit(mapLayout, seen, nbs[k])
       THEN explore(mapLayout, path, k + 1, Append(q, Append(path, nbs[k])),
                    seen \cup {nbs[k]})
       ELSE explore(mapLayout, path, k + 1, q, seen)

\* if (x === end.x && y === end.y)
atEnd(path, end) == path[Len(path)].x = end.x /\ path[Len(path)].y = end.y

\* The state at the head of the while loop of a call.
InitLayout ==
    /\ config \in LayoutCalls
    /\ queue = << << config.start >> >>
    /\ visited = {config.start}
    /\ result = Pending
    /\ dequeues = 0
    /\ GameNotLoaded

\* An iteration that finds the end at the end of the dequeued path.
LayoutReturnPath ==
    /\ result = Pending
    /\ queue # << >>
    /\ atEnd(Head(queue), config.end)
    /\ result' = Found(Head(queue))
    /\ queue' = Tail(queue)
    /\ dequeues' = dequeues + 1
    /\ UNCHANGED << config, visited >>
    /\ UNCHANGED << gameVars, alerts, reply, fetched, runs >>

\* An iteration that dequeues another path and explores its neighbours.
LayoutExplore ==
    /\ result = Pending
    /\ queue # << >>
    /\ ~ atEnd(Head(queue), config.end)
    /\ LET e == explore(config.mapLayout, Head(queue), 1, Tail(queue), visited)
       IN /\ queue' = e.queue
          /\ visited' = e.visited
    /\ dequeues' = dequeues + 1
    /\ UNCHANGED << config, result >>
    /\ UNCHANGED << gameVars, alerts, reply, fetched, runs >>

NextLayout ==
    \/ LayoutReturnPath
    \/ LayoutExplore
    \/ ReturnNull

SpecLayout == InitLayout /\ [][NextLayout]_vars

\* The two searches side by side: a call of findPath(config) or a call of
\* findPath(start, end, mapLayout).  Each loop runs to its return without
\* yielding.
InitPlanners == InitFind \/ InitLayout

ConfigStep == "traps" \in DOMAIN config /\ NextFind

LayoutStep == "mapLayout" \in DOMAIN config /\ NextLayout

NextPlanners == ConfigStep \/ LayoutStep

SpecPlanners == InitPlanners /\ [][NextPlanners]_vars

FairPlanners == SpecPlanners /\ WF_vars(ConfigStep) /\ WF_vars(LayoutStep)

-----------------------------------------------------------------------------
(* Reference definitions for the claims about findPath.  They are written   *)
(* over sets of cells and do not use the queue, the visited set or dirs.    *)

InGrid(cfg, c) == c.x >= 0 /\ c.x < cfg.width /\ c.y >= 0 /\ c.y < cfg.height

Adjacent(a, b) ==
    \/ a.x = b.x /\ (a.y = b.y + 1 \/ b.y = a.y + 1)
    \/ a.y = b.y /\ (a.x = b.x + 1 \/ b.x = a.x + 1)

\* Cells a route may step onto: inside the grid and not a trap.
Walkable(cfg) ==
    { c \in { Pos(x, y) : x \in 0..(cfg.width - 1), y \in 0..(cfg.height - 1) } :
        c \notin cfg.traps }

\* Breadth-first distance from the cells of frontier (at distance d from the
\* start) to goal, stepping only onto cells of W; -1 when there is no route.
RECURSIVE RefDist(_, _, _, _, _)
RefDist(W, goal, frontier, seen, d) ==
    IF goal \in frontier THEN d
    ELSE LET next == { c \in W \ seen : \E f \in frontier : Adjacent(c, f) }
         IN IF next = {} THEN -1
            ELSE RefDist(W, goal, next, seen \cup next, d + 1)

RefDistance(cfg) == RefDist(Walkable(cfg), cfg.goal, {cfg.start}, {cfg.start}, 0)

\* The same distance when traps are ignored.
RefDistanceNoTraps(cfg) ==
    RefDist(Walkable([cfg EXCEPT !.traps = {}]), cfg.goal,
            {cfg.start}, {cfg.start}, 0)

\* Unit displacement of a direction token (x to the right, y downward).
Step(c, d) ==
    CASE d = RIGHT -> Pos(c.x + 1, c.y)
      [] d = LEFT -> Pos(c.x - 1, c.y)
      [] d = DOWN -> Pos(c.x, c.y + 1)
      [] d = UP -> Pos(c.x, c.y - 1)

\* The cells stepped onto when path is replayed from c, in order.
RECURSIVE Replay(_, _)
Replay(c, path) ==
    IF path = << >> THEN << >>
    ELSE << Step(c, Head(path)) >> \o Replay(Step(c, Head(path)), Tail(path))

Manhattan(a, b) ==
    (IF a.x >= b.x THEN a.x - b.x ELSE b.x - a.x)
    + (IF a.y >= b.y THEN a.y - b.y ELSE b.y - a.y)

Returned == result.kind # "pending"

-----------------------------------------------------------------------------
(* Claims about findPath *)

\* C1: whenever the goal is reachable from start by 4-connected moves onto
\* in-bounds non-trap cells, findPath returns a path whose length equals the
\* breadth-first distance computed by the reference search RefDistance.
C1_ShortestPath ==
    (Returned /\ RefDistance(config) >= 0)
        => (result.kind = "path" /\ Len(result.path) = RefDistance(config))

\* A returned path that is longer than the Manhattan distance: the search had
\* to go round a trap.
C1_Witness ==
    /\ result.kind = "path"
    /\ Len(result.path) > Manhattan(config.start, config.goal)
    /\ Len(result.path) = RefDistance(config)

\* C2: findPath returns null exactly when no route of in-bounds non-trap
\* cells joins start to goal; otherwise it returns a complete path.
C2_NullIffNoRoute ==
    Returned =>
        /\ result.kind \in {"path", "null"}
        /\ (result = NotFound) <=> (RefDistance(config) = -1)
        /\ result.kind = "path" =>
              (IF result.path = << >> THEN config.start
               ELSE Replay(config.start, result.path)[Len(result.path)])
                 = config.goal

\* null was returned after the search had explored more than the start cell.
C2_Witness ==
    /\ result = NotFound
    /\ dequeues >= 2
    /\ config.start \notin config.traps
    /\ config.goal \notin config.traps
    /\ InGrid(config, config.goal)

\* C3: replaying a returned path from start steps only onto cells inside the
\* grid that are not traps and ends on the goal; and when the grid without
\* traps joins start to goal but every route crosses a trap, findPath
\* returns null.
C3_TrapFreePath ==
    /\ result.kind = "path" =>
          LET cells == Replay(config.start, result.path)
          IN /\ \A i \in 1..Len(cells) :
                   InGrid(config, cells[i]) /\ cells[i] \notin config.traps
             /\ (IF cells = << >> THEN config.start ELSE cells[Len(cells)])
                   = config.goal
    /\ (Returned /\ RefDistanceNoTraps(config) >= 0 /\ RefDistance(config) = -1)
          => result = NotFound

\* Traps alone cut the goal off, and null was returned.
C3_Witness ==
    /\ result = NotFound
    /\ RefDistanceNoTraps(config) >= 1
    /\ RefDistance(config) = -1
    /\ config.goal \notin config.traps

-----------------------------------------------------------------------------
(* Reference definitions for the claims about a run.  outcomes holds, for    *)
(* every command of the current run that moveRobot was called with, the      *)
(* direction, the return taken and robot.position at that return.            *)

\* The single start cell of the layout, as a position of the scene.
StartVec ==
    LET c == CHOOSE c \in DOMAIN mapConfig.cell : mapConfig.cell[c] = "start"
    IN Vec(c.x * LerpSteps, c.y * LerpSteps)

OnCell(v) == v.x % LerpSteps = 0 /\ v.z % LerpSteps = 0

CellOf(v) == Pos(v.x \div LerpSteps, v.z \div LerpSteps)

VecOf(c) == Vec(c.x * LerpSteps, c.y * LerpSteps)

InLayout(c) == c \in DOMAIN mapConfig.cell

TypeAt(c) == mapConfig.cell[c]

\* robot.position when the i-th command of the run was started.
Before(i) == IF i = 1 THEN StartVec ELSE outcomes[i - 1].position

\* The cell the i-th command aims at.
Target(i) == Step(CellOf(Before(i)), outcomes[i].direction)

Steps == { i \in 1..Len(outcomes) : outcomes[i].direction \in movementKey }

Terminal(o) == o \in {"triggered-trap", "reached-goal"}

-----------------------------------------------------------------------------
(* Claims about a run of commands *)

\* C4: once a step has moved the robot onto a trap cell, no later command of
\* the sequence is executed: the triggered-trap step is the last step of the
\* run, the robot stays where that step left it and nothing is pending.
C4_TrapStopsRun ==
    \A i \in 1..Len(outcomes) :
        outcomes[i].outcome = "triggered-trap" =>
            /\ i = Len(outcomes)
            /\ robot = outcomes[i].position
            /\ TypeAt(CellOf(robot)) = "trap"
            /\ pc = "idle"

\* A run that ended on a trap with commands of its sequence left over.
C4_Witness ==
    /\ outcomes # << >>
    /\ outcomes[Len(outcomes)].outcome = "triggered-trap"
    /\ Len(moveSequence) > Len(outcomes)
    /\ \E k \in (Len(outcomes) + 1)..Len(moveSequence) :
          /\ moveSequence[k] \in movementKey
          /\ InLayout(Step(CellOf(robot), moveSequence[k]))
          /\ TypeAt(Step(CellOf(robot), moveSequence[k])) # "object"

\* C5: once a step has moved the robot onto the goal cell, no later command
\* of the sequence is executed: the reached-goal step is the last step of the
\* run and the robot stays on the goal.
C5_GoalStopsRun ==
    \A i \in 1..Len(outcomes) :
        outcomes[i].outcome = "reached-goal" =>
            /\ i = Len(outcomes)
            /\ robot = outcomes[i].position

\* C6: robot.position is always inside the grid, and whenever it is on a cell
\* that cell is not an object.
C6_InGridOffObjects ==
    /\ robot.x >= 0 /\ robot.x <= Scaled(mapConfig.width - 1)
    /\ robot.z >= 0 /\ robot.z <= Scaled(mapConfig.height - 1)
    /\ OnCell(robot) => TypeAt(CellOf(robot)) # "object"

\* C7: a step whose target lies outside the grid returns blocked-by-bounds,
\* leaves robot.position as it was and does not set the finished flag; the
\* same step issued again gives the same position and the same return.
C7_BlockedByBounds ==
    \A i \in Steps :
        ~ InLayout(Target(i)) =>
            /\ outcomes[i].outcome = "blocked-by-bounds"
            /\ outcomes[i].position = Before(i)
            /\ (i = Len(outcomes) /\ pc # "frame") => robot = Before(i)
            /\ i = Len(outcomes) => ~ context.isGameFinished
            /\ (i < Len(outcomes) /\ outcomes[i + 1].direction = outcomes[i].direction)
                  => /\ outcomes[i + 1].outcome = "blocked-by-bounds"
                     /\ outcomes[i + 1].position = outcomes[i].position

\* The same out-of-grid step was issued twice in a row, and the run went on
\* with a third command.
C7_Witness ==
    /\ Len(outcomes) >= 3
    /\ outcomes[1].outcome = "blocked-by-bounds"
    /\ outcomes[2].outcome = "blocked-by-bounds"
    /\ outcomes[2].direction = outcomes[1].direction
    /\ outcomes[3].outcome = "moved"
    /\ ~ InLayout(Target(1))

\* C8: a step whose target is in the grid and is an object cell returns
\* blocked-by-obstacle, leaves robot.position as it was and does not set the
\* finished flag; a target outside the grid is rejected by the bounds check
\* and never reported as an obstacle.
C8_BlockedByObstacle ==
    \A i \in Steps :
        /\ (InLayout(Target(i)) /\ TypeAt(Target(i)) = "object") =>
              /\ outcomes[i].outcome = "blocked-by-obstacle"
              /\ outcomes[i].position = Before(i)
              /\ (i = Len(outcomes) /\ pc # "frame") => robot = Before(i)
              /\ i = Len(outcomes) => ~ context.isGameFinished
        /\ outcomes[i].outcome = "blocked-by-obstacle" => InLayout(Target(i))

\* A step was blocked by an object and the next command of the run moved.
C8_Witness ==
    /\ Len(outcomes) >= 2
    /\ outcomes[1].outcome = "blocked-by-obstacle"
    /\ TypeAt(Target(1)) = "object"
    /\ outcomes[2].outcome = "moved"

\* The return a committed step must take, by the type of its target cell.
Classify(c) ==
    IF TypeAt(c) = "trap" THEN "triggered-trap"
    ELSE IF c = context.position.end THEN "reached-goal"
    ELSE "moved"

\* C9 (moveRobot of game.js): a step whose target is in the grid and no
\* object commits the move (robot.position becomes the target) and is then
\* classified: triggered-trap on a trap cell, otherwise reached-goal on the
\* recorded end position, otherwise moved.  The first two set the finished
\* flag and end the run; moved leaves the flag as it was.
C9_CommitAndClassify ==
    variant = "moveRobot" =>
        \A i \in Steps :
            (InLayout(Target(i)) /\ TypeAt(Target(i)) # "object") =>
                /\ outcomes[i].position = VecOf(Target(i))
                /\ outcomes[i].outcome = Classify(Target(i))
                /\ Terminal(outcomes[i].outcome) =>
                      (context.isGameFinished /\ i = Len(outcomes))
                /\ (outcomes[i].outcome = "moved" /\ i = Len(outcomes))
                      => ~ context.isGameFinished

\* A run of moveRobot with a moved step followed by a reached-goal step.
C9_Witness ==
    /\ variant = "moveRobot"
    /\ Len(outcomes) = 2
    /\ outcomes[1].outcome = "moved"
    /\ outcomes[2].outcome = "reached-goal"
    /\ context.isGameFinished
    /\ robot = VecOf(context.position.end)

\* C10: whenever the finished flag is set, robot.position is the trap cell
\* stepped onto or the recorded end position: the position is committed
\* before the flag is set.
C10_FinishedOnTerminalCell ==
    context.isGameFinished =>
        /\ OnCell(robot)
        /\ InLayout(CellOf(robot))
        /\ \/ TypeAt(CellOf(robot)) = "trap"
           \/ CellOf(robot) = context.position.end

\* The flag is set with the robot on a trap it reached in its second step.
C10_Witness ==
    /\ context.isGameFinished
    /\ TypeAt(CellOf(robot)) = "trap"
    /\ Len(outcomes) >= 2
    /\ robot # StartVec

\* The records of the run so far follow the sequence, command by command.
InOrder ==
    /\ Len(outcomes) <= Len(moveSequence)
    /\ \A i \in 1..Len(outcomes) : outcomes[i].direction = moveSequence[i]

\* Every command up to the first terminal outcome has been attempted.
Attempted ==
    /\ InOrder
    /\ Len(outcomes) < Len(moveSequence) =>
          /\ outcomes # << >>
          /\ Terminal(outcomes[Len(outcomes)].outcome)

\* C11: blocked steps and moved steps do not stop a run.  With timers and
\* animation frames firing, a run in progress comes to its end; when it has
\* ended every command before the first terminal outcome has been attempted,
\* in the order given; and the step in progress starts from the position the
\* previous one left.
C11_RunProceeds ==
    /\ [](pc = "idle" => Attempted)
    /\ [](pc \in {"delay", "frame"} => (InOrder /\ idx = Len(outcomes) + 1))
    /\ [](pc = "frame" => /\ anim.direction = moveSequence[idx]
                          /\ anim.startPos = Before(idx))
    /\ (pc \in {"delay", "frame"}) ~> (pc = "idle")

\* A run of three commands that ended: blocked by an object, blocked by the
\* bounds, then moved.
C11_Witness ==
    /\ pc = "idle"
    /\ Len(moveSequence) = 3
    /\ Len(outcomes) = 3
    /\ outcomes[1].outcome = "blocked-by-obstacle"
    /\ outcomes[2].outcome = "blocked-by-bounds"
    /\ outcomes[3].outcome = "moved"
    /\ robot # StartVec

\* Input the specification calls invalid: start or goal outside the grid or
\* on a blocked cell, or a grid of zero area.
InvalidInput(cfg) ==
    \/ cfg.width * cfg.height = 0
    \/ ~ InGrid(cfg, cfg.start)
    \/ ~ InGrid(cfg, cfg.goal)
    \/ cfg.start \in cfg.traps
    \/ cfg.goal \in cfg.traps

\* C12: for invalid input findPath returns neither a path nor the not-found
\* value: it signals an error of its own.
C12_InvalidInputSignalled ==
    (Returned /\ InvalidInput(config)) => result.kind \notin {"path", "null"}

\* C13: when start equals goal, findPath returns the empty path, whatever the
\* grid and the traps are, and not the not-found value.
C13_StartIsGoal ==
    (Returned /\ config.start = config.goal) => result = Found(<< >>)

\* findPath has returned for a start that is the goal, with a trap in the grid.
C13_Witness ==
    /\ config.start = config.goal
    /\ result = Found(<< >>)
    /\ dequeues = 1
    /\ \E t \in config.traps : InGrid(config, t) /\ t # config.start

-----------------------------------------------------------------------------
(* Claims about startGame *)

\* C14: startGame reports that there is no route only when findPath returned
\* the not-found value; for the empty path it shows no such report, executes
\* no move and leaves the player on the start cell.
C14_EmptyPathIsValid ==
    (result.kind = "path" /\ result.path = << >>) =>
        /\ alerts = << >>
        /\ robot = createMapObjects(config)
        /\ anim = << >>

-----------------------------------------------------------------------------
(* A reference breadth-first search that keeps whole layers instead of a     *)
(* queue: the cells at distance d in the order they were first met, each     *)
(* with the path that met it.                                                *)

RefOrder == << RIGHT, LEFT, DOWN, UP >>

\* The next layer: the n-th pair (cell of the layer, direction) onward, cells
\* in layer order and for each cell the directions in RefOrder.
RECURSIVE RefNextLayer(_, _, _, _, _)
RefNextLayer(cfg, layer, n, next, seen) ==
    IF n >= Len(layer) * Len(RefOrder) THEN [layer |-> next, seen |-> seen]
    ELSE LET from == layer[(n \div Len(RefOrder)) + 1]
             d == RefOrder[(n % Len(RefOrder)) + 1]
             c == Step(from.cell, d)
         IN IF c \in Walkable(cfg) /\ c \notin seen
            THEN RefNextLayer(cfg, layer, n + 1,
                              Append(next, [cell |-> c, path |-> Append(from.path, d)]),
                              seen \cup {c})
            ELSE RefNextLayer(cfg, layer, n + 1, next, seen)

RECURSIVE RefLayers(_, _, _)
RefLayers(cfg, layer, seen) ==
    IF layer = << >> THEN NotFound
    ELSE IF \E i \in 1..Len(layer) : layer[i].cell = cfg.goal
    THEN Found(layer[CHOOSE i \in 1..Len(layer) : layer[i].cell = cfg.goal].path)
    ELSE LET nl == RefNextLayer(cfg, layer, 0, << >>, seen)
         IN RefLayers(cfg, nl.layer, nl.seen)

RefSearch(cfg) ==
    RefLayers(cfg, << [cell |-> cfg.start, path |-> << >>] >>, {cfg.start})

\* C15: findPath returns exactly the path of the reference first-in-first-out
\* breadth-first search that tries Right, Left, Down, Up in that order and
\* marks a cell visited when it is enqueued; a second call on the same input
\* returns the same value.
C15_FixedOrderDeterministic ==
    Returned => (result = RefSearch(config) /\ result = findPath(config))

\* A path was returned although a second shortest path exists, which starts
\* with another direction.
C15_Witness ==
    /\ result.kind = "path"
    /\ Len(result.path) >= 2
    /\ \E d \in movementKey :
          /\ d # result.path[1]
          /\ Step(config.start, d) \in Walkable(config)
          /\ RefDist(Walkable(config), config.goal, {Step(config.start, d)},
                     {config.start, Step(config.start, d)}, 1) = Len(result.path)

-----------------------------------------------------------------------------
(* Claim about the map of map-2 *)

\* C16: on the 8 x 8 map with start (1,1), goal (6,6) and the four traps,
\* findPath returns a path of exactly 10 moves that steps on no trap, and the
\* run of that path gives nine moved steps followed by one reached-goal step.
C16_Map2Scenario ==
    /\ Returned =>
          /\ result.kind = "path"
          /\ Len(result.path) = 10
          /\ \A k \in 1..10 : Replay(config.start, result.path)[k] \notin config.traps
    /\ \A i \in 1..Len(outcomes) :
          /\ i <= 10
          /\ outcomes[i].outcome = IF i < 10 THEN "moved" ELSE "reached-goal"
          /\ outcomes[i].position = VecOf(Replay(config.start, result.path)[i])
    /\ (pc = "idle" /\ moveSequence # << >>) => Len(outcomes) = 10

\* The run of the returned path has ended on the goal.
C16_Witness ==
    /\ config = map2Config
    /\ pc = "idle"
    /\ moveSequence = result.path
    /\ Len(outcomes) = 10
    /\ outcomes[9].outcome = "moved"
    /\ outcomes[10].outcome = "reached-goal"
    /\ robot = VecOf(config.goal)

-----------------------------------------------------------------------------
(* Claim about single steps *)

FiveOutcomes ==
    { "moved", "blocked-by-bounds", "blocked-by-obstacle", "reached-goal",
      "triggered-trap" }

\* The one outcome the target cell of the i-th command determines.
Expected(i) ==
    IF ~ InLayout(Target(i)) THEN "blocked-by-bounds"
    ELSE IF TypeAt(Target(i)) = "object" THEN "blocked-by-obstacle"
    ELSE Classify(Target(i))

\* C17: a step with one of the four directions, from a cell of the grid that
\* is no object, ends with exactly one of the five outcomes, the one its
\* target cell determines; a step with any other token returns before the
\* grid checks and changes neither robot.position nor the finished flag.
C17_StepIsTotal ==
    \A i \in 1..Len(outcomes) :
        /\ OnCell(Before(i))
        /\ InLayout(CellOf(Before(i)))
        /\ TypeAt(CellOf(Before(i))) # "object"
        /\ IF outcomes[i].direction \in movementKey
           THEN /\ outcomes[i].outcome \in FiveOutcomes
                /\ outcomes[i].outcome = Expected(i)
           ELSE /\ outcomes[i].outcome = "unknown-direction"
                /\ outcomes[i].position = Before(i)
                /\ i = Len(outcomes) => ~ context.isGameFinished
                /\ (i = Len(outcomes) /\ pc # "frame") => robot = Before(i)

\* A run in which another token came between two steps that moved.
C17_Witness ==
    /\ Len(outcomes) = 3
    /\ outcomes[1].outcome = "moved"
    /\ outcomes[2].outcome = "unknown-direction"
    /\ outcomes[2].direction = OtherChar
    /\ outcomes[3].outcome \in {"reached-goal", "triggered-trap"}

-----------------------------------------------------------------------------
(* Claims about the moves fetched from the AI *)

\* str with every character that is no movement key removed.
RECURSIVE RefStrip(_)
RefStrip(str) ==
    IF str = << >> THEN << >>
    ELSE IF Head(str) \in {RIGHT, LEFT, UP, DOWN}
    THEN << Head(str) >> \o RefStrip(Tail(str))
    ELSE RefStrip(Tail(str))

\* pathFetcher() has returned moves to the handler.
Fetched == fetched.kind = "moves" /\ pc # "fetching"

\* C18: the sequence handed to the executor, moves[0], is the content of the
\* response with every character other than the four direction tokens
\* removed: only direction tokens, in their original order, none dropped.
C18_OnlyDirectionTokens ==
    Fetched =>
        /\ fetched.list[1] = RefStrip(reply.content)
        /\ moveSequence = fetched.list[1]
        /\ \A i \in 1..Len(moveSequence) : moveSequence[i] \in {RIGHT, LEFT, UP, DOWN}
        /\ \A i \in 1..Len(outcomes) : outcomes[i].direction = moveSequence[i]

\* Two direction tokens with another character between them were answered
\* and both were executed.
C18_Witness ==
    /\ Fetched
    /\ Len(reply.content) = 3
    /\ reply.content[2] = OtherChar
    /\ Len(moveSequence) = 2
    /\ Len(outcomes) = 2
    /\ outcomes[2].outcome = "moved"

\* The response holds nothing the executor could run.
NothingUsable(r) ==
    \/ ~ r.ok
    \/ r.choices = 0
    \/ \A i \in 1..Len(r.content) : r.content[i] \notin {RIGHT, LEFT, UP, DOWN}

\* C19: when the response holds no direction token, or the API answered with
\* an error or without choices, the fetcher fails (it throws, or alerts and
\* returns null) and the handler executes no move; what the fetcher returns
\* as moves is never an empty array nor an array that begins with the empty
\* string.
C19_NothingUsableFails ==
    /\ fetched.kind = "moves" => (fetched.list # << >> /\ fetched.list[1] # << >>)
    /\ (reply.kind = "reply" /\ pc # "fetching" /\ NothingUsable(reply)) =>
          /\ fetched.kind \in {"throw", "null"}
          /\ alerts # << >>
          /\ alerts[Len(alerts)] = fetched.message
          /\ pc = "idle"
          /\ ~ disabled
          /\ moveSequence = << >>
          /\ outcomes = << >>
          /\ robot = StartVec

\* A response of other characters only was answered to the second click,
\* after a run that moved the robot.
C19_Witness ==
    /\ reply.kind = "reply"
    /\ reply.ok
    /\ reply.choices = 1
    /\ Len(reply.content) = 2
    /\ NothingUsable(reply)
    /\ fetched.kind = "throw"
    /\ hasRunOnce
    /\ pc = "idle"
    /\ Len(alerts) = 1

\* C20: the outcome of a run depends only on the grid, the start cell and the
\* command sequence, for every delay between the steps and every interleaving
\* of timer and animation-frame callbacks: once startGame has called movePlayer
\* for every move of the path and no animation is left, the player stands on
\* the cell that the moves lead to from the start cell.
C20_InterleavingIndependent ==
    (variant = "startGame" /\ pc = "over" /\ anim = << >> /\ moveSequence # << >>) =>
        robot = VecOf(Replay(config.start, moveSequence)[Len(moveSequence)])

\* The part of the context that describes the grid.
GridOf(ctx) ==
    IF "position" \in DOMAIN ctx
    THEN [position |-> ctx.position,
          mapDisplayWidth |-> ctx.mapDisplayWidth,
          mapDisplayHeight |-> ctx.mapDisplayHeight,
          objectPositions |-> ctx.objectPositions,
          trapPositions |-> ctx.trapPositions]
    ELSE [none |-> TRUE]

\* C21: neither component mutates the grid: no step of findPath changes its
\* config (width, height, start, goal, traps), and no step of the click
\* handler or of moveRobot changes the layout, the map dimensions, the
\* recorded start and goal positions, the obstacle positions or the trap
\* positions of the context; what they record stays what renderMap recorded.
C21_GridNotMutated ==
    [][ /\ config' = config
        /\ mapConfig' = mapConfig
        /\ GridOf(context') = GridOf(context)
        /\ (variant = "none" => context' = context /\ robot' = robot)
        /\ (variant # "none" => GridOf(context') = GridOf(renderMap(mapConfig))) ]_vars

\* A run that moved the robot onto a trap and set the finished flag.
C21_Witness ==
    /\ pc = "idle"
    /\ context.isGameFinished
    /\ outcomes # << >>
    /\ outcomes[Len(outcomes)].outcome = "triggered-trap"
    /\ robot # StartVec
    /\ context.trapPositions # {}

\* The type of the cell c of the layout of the call.
RoleAt(c) == cellType(config.mapLayout.key[c])

\* C22: called with the start cell and an end cell of a layout, the
\* layout-based findPath treats obstacle ('object') and trap cells as
\* impassable: no path it returns contains a cell whose role is obstacle or
\* trap.
C22_AvoidsObstaclesAndTraps ==
    (/\ result.kind = "path"
     /\ RoleAt(config.start) = "start"
     /\ RoleAt(config.end) = "end") =>
        \A i \in 1..Len(result.path) : RoleAt(result.path[i]) \notin {"object", "trap"}

\* The cells of the grid of the call, the cell a queue entry stands for and
\* the length of the path it carries, for either search.
GridCells ==
    IF "mapLayout" \in DOMAIN config THEN DOMAIN config.mapLayout.key
    ELSE CellsOf(config.width, config.height)

EntryCell(e) == IF "mapLayout" \in DOMAIN config THEN e[Len(e)] ELSE Pos(e.x, e.y)

EntryLength(e) == IF "mapLayout" \in DOMAIN config THEN Len(e) ELSE Len(e.path)

\* C23: findPath terminates on every finite grid.  A cell is in the visited
\* set from the moment it is enqueued and is enqueued once (the entries
\* enqueued so far are as many as the visited cells, and the queue holds no
\* cell twice), so there are at most width x height dequeues; the path lengths
\* in the queue are non-decreasing from front to back; the call returns.
C23_Terminates ==
    /\ [](/\ visited \subseteq GridCells
          /\ \A i \in 1..Len(queue) : EntryCell(queue[i]) \in visited
          /\ \A i, j \in 1..Len(queue) :
                i < j => /\ EntryCell(queue[i]) # EntryCell(queue[j])
                         /\ EntryLength(queue[i]) <= EntryLength(queue[j])
          /\ dequeues + Len(queue) = Cardinality(visited)
          /\ dequeues <= Cardinality(GridCells))
    /\ [][visited \subseteq visited']_vars
    /\ <>(result # Pending)

\* A search that has visited every cell of a four-cell grid and dequeued
\* each of them, the end last.
C23_Witness ==
    /\ result.kind = "path"
    /\ Cardinality(GridCells) = 4
    /\ dequeues = 4
    /\ "mapLayout" \in DOMAIN config

\* C24: the arrow-regex fetcher returns an array in which every element is
\* exactly one arrow, so that the earlier runner, which passes each element to
\* movePlayer as one direction, is given every arrow of the response once and
\* in order.
C24_OneArrowPerElement ==
    (variant = "legacy" /\ fetched.kind = "moves") =>
        /\ \A i \in 1..Len(fetched.list) :
              Len(fetched.list[i]) = 1 /\ fetched.list[i][1] \in movementKey
        /\ moveSequence = replaceFilter(reply.content)

\* The calls of startGame that have not finished their last move.
InProgress == { k \in 1..Len(runs) : runs[k].wait # "done" }

\* C25: at most one run is in progress at any time: the trigger button is
\* disabled from the moment a click is accepted until the handler of that
\* click has finished its last move, so no second run starts, resets the
\* robot or interleaves its moves with a run that is still executing.
C25_OneRunAtATime ==
    /\ pc \in {"fetching", "delay", "frame"} => disabled
    /\ InProgress # {} => disabled
    /\ Cardinality(InProgress) <= 1

C27_FailureExecutesNoStep ==
    /\ [](fetched.kind \in {"throw", "null"} =>
            /\ pc = "idle"
            /\ ~ disabled
            /\ hasRunOnce
            /\ outcomes = << >>
            /\ idx = 0
            /\ anim = NoAnim
            /\ robot = StartVec
            /\ ~ context.isGameFinished
            /\ alerts # << >>
            /\ alerts[Len(alerts)] = fetched.message)
    /\ [][fetched'.kind \in {"throw", "null"} =>
            (robot' = robot /\ context' = context)]_vars

\* The API answered the click after a finished run with an error, and the
\* fetcher of ai-fetch.js returned null.
C27_Witness ==
    /\ fetched.kind = "null"
    /\ ~ reply.ok
    /\ pc = "idle"
    /\ ~ disabled
    /\ hasRunOnce
    /\ Len(alerts) = 1
    /\ robot = StartVec
    /\ CellsOfType(mapConfig, "trap") # {}

\* C28: every run starts from a clean state: from the click to the first step
\* of the run, first run or re-run, the robot is on the start cell and the
\* finished flag is not set, and the first move of the sequence is carried
\* out (its animation starts or its rejection is recorded), whatever ended
\* the run before.
C28_CleanStart ==
    /\ [](pc = "fetching" => (robot = StartVec /\ ~ context.isGameFinished))
    /\ []((pc = "frame" /\ idx = 1 /\ anim.t = -1) =>
             (robot = StartVec /\ ~ context.isGameFinished))
    /\ [][(pc = "fetching" /\ moveSequence' # << >>) =>
             \/ pc' = "frame" /\ idx' = 1 /\ anim'.direction = moveSequence'[1]
             \/ outcomes' # << >> /\ outcomes'[1].direction = moveSequence'[1]]_vars

\* The first move of a re-run is about to be animated on a map with a trap.
C28_Witness ==
    /\ hasRunOnce
    /\ pc = "frame"
    /\ idx = 1
    /\ anim.t = -1
    /\ robot = StartVec
    /\ ~ context.isGameFinished
    /\ CellsOfType(mapConfig, "trap") # {}

\* C29: for every layout with at least one start cell, the cell on which the
\* robot is created, the start position renderMap recorded, is the cell the
\* click handler puts the robot back on at the beginning of each run, and the
\* recorded goal position is a cell of type 'end'.
C29_CreatedWhereReset ==
    /\ (pc = "idle" /\ ~ hasRunOnce) => robot = createRobot(context)
    /\ pc = "fetching" => robot = createRobot(context)
    /\ pc \notin {"setup", "failed"} =>
          mapConfig.cell[context.position.end] = "end"

\* The cells of a layout that are not walls.
FreeCells(m) == { c \in DOMAIN m.key : m.key[c] # Wall }

\* The free cells at most n unit steps over free cells away from s.
RECURSIVE Within(_, _, _)
Within(m, s, n) ==
    IF n = 0 THEN {s} \cap FreeCells(m)
    ELSE LET W == Within(m, s, n - 1)
         IN W \cup { d \in FreeCells(m) : \E c \in W : Adjacent(c, d) }

\* C30: findPath(start, end, mapLayout) returns null or a list of
\* coordinates that begins with start and ends with end, in which consecutive
\* cells are one unit apart in one axis, every cell is in bounds and not a
\* '#' cell, no cell repeats, and whose length is the least possible; it
\* returns null exactly when end cannot be reached.
C30_LayoutPathCorrect ==
    ("mapLayout" \in DOMAIN config /\ result # Pending) =>
        LET m == config.mapLayout
            p == result.path
        IN IF result.kind = "path"
           THEN /\ p # << >>
                /\ p[1] = config.start
                /\ p[Len(p)] = config.end
                /\ \A i \in 1..(Len(p) - 1) : Adjacent(p[i], p[i + 1])
                /\ \A i \in 1..Len(p) : p[i] \in DOMAIN m.key /\ m.key[p[i]] # Wall
                /\ \A i, j \in 1..Len(p) : p[i] = p[j] => i = j
                /\ config.end \in Within(m, config.start, Len(p) - 1)
                /\ Len(p) > 1 => config.end \notin Within(m, config.start, Len(p) - 2)
           ELSE /\ result = NotFound
                /\ config.end \notin Within(m, config.start, MaxCells)

====
